---- MODULE Spec2Model ----
(***************************************************************************)
(* Model of scrape_jobs.py: three page extractors, three paginators, the   *)
(* orchestrator main() and deduplicate_jobs().                             *)
(*                                                                         *)
(* Representation.  A Python str is a sequence of tokens: "/", "?", " "    *)
(* are the single characters the code tests for, the other tokens are      *)
(* indivisible runs of characters.  None / a missing attribute / a missing *)
(* element is the empty tuple <<>>, a present value v is <<v>>.            *)
(***************************************************************************)
EXTENDS Integers, Sequences, FiniteSets, TLC

VARIABLES
    search_terms,   \* main: the list of search terms (term ids)
    max_pages,      \* main: pages per term per source
    pc,             \* position of the single thread of control
    t,              \* main: index of the current term in search_terms
    page,           \* paginator: loop variable `page`
    all_postings,   \* paginator: accumulator of the running search_*_for_term
    all_jobs,       \* main: accumulator across sources and terms
    unique_jobs,    \* main: result of deduplicate_jobs
    output,         \* jobs.json: <<>> until written, then <<list of records>>
    sessions,       \* number of Chrome sessions currently open
    raising,        \* an exception is propagating out of search_indeed_for_term
    fetched,        \* page requests of the current paginator run, in order:
                    \* [page, yield], yield = <<records>> or None when it raised
    invoked,        \* the (term index, source) paginator calls made so far
    clock,          \* datetime.utcnow(), one tick per page request
    html,           \* the page content last handed to an extractor
    page_postings   \* the records the extractor returned for it

vars == <<search_terms, max_pages, pc, t, page, all_postings, all_jobs,
          unique_jobs, output, sessions, raising, fetched, invoked, clock,
          html, page_postings>>

----------------------------------------------------------------------------
(* Bounds of the exploration.                                              *)

MaxTerms == 2
MaxPagesMulti == 1
MaxJobs == 3
MaxCards == 2

(* Program constants.                                                      *)

DEFAULT_MAX_PAGES == 5

\* the search terms are distinct strings; term i stands for the i-th of them
DEFAULT_SEARCH_TERMS == [i \in 1..MaxTerms |-> i]

INDEED == "indeed"
GOOGLE == "google_linkedin"
LINKEDIN == "linkedin"

Sources == <<INDEED, GOOGLE, LINKEDIN>>

INDEED_ORIGIN == <<"https://", "www.indeed.com">>

LINKEDIN_JOBS == "linkedin.com/jobs"

----------------------------------------------------------------------------
(* str helpers.                                                            *)

None == <<>>

Some(v) == <<v>>

\* a or b, for two optional elements (bs4 Tags are always truthy)
OrElse(a, b) == IF a # None THEN a ELSE b

\* attr or default: a missing attribute and the empty str are both falsy
AttrOr(attr, default) == IF attr = None \/ attr[1] = <<>> THEN default ELSE attr[1]

\* tag.get(name, ""): only a missing attribute takes the default
AttrGet(attr) == IF attr = None THEN <<>> ELSE attr[1]

RECURSIVE LStrip(_)
LStrip(s) == IF s # <<>> /\ Head(s) = " " THEN LStrip(Tail(s)) ELSE s

RECURSIVE RStrip(_)
RStrip(s) ==
    IF s # <<>> /\ s[Len(s)] = " " THEN RStrip(SubSeq(s, 1, Len(s) - 1)) ELSE s

\* get_text(strip=True) of an element with one text node
Strip(s) == RStrip(LStrip(s))

\* " ".join(text.split()): runs of whitespace collapse to one blank
RECURSIVE Collapse(_)
Collapse(s) ==
    IF Len(s) < 2 THEN s
    ELSE IF s[1] = " " /\ s[2] = " " THEN Collapse(Tail(s))
    ELSE <<s[1]>> \o Collapse(Tail(s))

NormalizeWs(s) == Collapse(Strip(s))

\* el.get_text(strip=True) if el else ""
TextOf(el) == IF el = None THEN <<>> ELSE Strip(el[1])

StartsWithSlash(s) == s # <<>> /\ Head(s) = "/"

\* s.split("?")[0]
RECURSIVE BeforeQuery(_)
BeforeQuery(s) ==
    IF s = <<>> \/ Head(s) = "?" THEN <<>> ELSE <<Head(s)>> \o BeforeQuery(Tail(s))

\* "linkedin.com/jobs" in url
ContainsJobsPath(s) == \E i \in DOMAIN s : s[i] = LINKEDIN_JOBS

JobPosting(source, title, company, location, url, summary, posted_raw, scraped_at, search_term) ==
    [source |-> source, title |-> title, company |-> company,
     location |-> location, url |-> url, summary |-> summary,
     posted_raw |-> posted_raw, scraped_at |-> scraped_at,
     search_term |-> search_term]

----------------------------------------------------------------------------
(* parse_indeed_jobs.  html is the sequence of the page's div blocks; a    *)
(* block carries its class and, per selector the code uses, the first      *)
(* element matching it inside the block (or None).  "h2.jobTitle a" can    *)
(* only match what "h2 a" matches, so the block has one h2a entry.         *)

SelectClass(blocks, cls) == SelectSeq(blocks, LAMBDA b : b.cls = cls)

IndeedJobCards(blocks) ==
    IF SelectClass(blocks, "job_seen_beacon") # <<>>
    THEN SelectClass(blocks, "job_seen_beacon")
    ELSE SelectClass(blocks, "jobsearch-SerpJobCard")

IndeedUrl(href) == IF StartsWithSlash(href) THEN INDEED_ORIGIN \o href ELSE href

IndeedPosting(card, scraped_at, search_term) ==
    LET title_element == card.h2a[1]
        title == AttrOr(title_element.aria, Strip(title_element.text))
        href == AttrOr(title_element.href, <<>>)
        company_element ==
            OrElse(card.companyName, OrElse(card.spanCompany, card.divCompany))
        location_element ==
            OrElse(card.companyLocation, OrElse(card.divLocation, card.spanLocation))
        summary_element == OrElse(card.jobSnippet, card.divSummary)
        posted_element == OrElse(card.spanDate, card.spanDatePosted)
    IN  JobPosting(INDEED, title, TextOf(company_element),
                   TextOf(location_element), IndeedUrl(href),
                   IF summary_element = None THEN <<>>
                   ELSE NormalizeWs(summary_element[1]),
                   TextOf(posted_element), scraped_at, search_term)

RECURSIVE IndeedLoop(_, _, _)
IndeedLoop(cards, scraped_at, search_term) ==
    IF cards = <<>> THEN <<>>
    ELSE (IF Head(cards).h2a = None THEN <<>>
          ELSE <<IndeedPosting(Head(cards), scraped_at, search_term)>>)
         \o IndeedLoop(Tail(cards), scraped_at, search_term)

parse_indeed_jobs(blocks, scraped_at, search_term) ==
    IndeedLoop(IndeedJobCards(blocks), scraped_at, search_term)

----------------------------------------------------------------------------
(* parse_google_jobs: one div.g block per result.                          *)

GooglePosting(r, scraped_at, search_term) ==
    LET snippet_el == OrElse(r.VwiC3b, r.aCOpRe)
    IN  JobPosting(GOOGLE, Strip(r.h3[1]), <<>>, <<>>, AttrGet(r.a[1].href),
                   TextOf(snippet_el), <<>>, scraped_at, search_term)

GoogleKeeps(r) ==
    /\ r.a # None
    /\ r.h3 # None
    /\ ContainsJobsPath(AttrGet(r.a[1].href))

RECURSIVE GoogleLoop(_, _, _)
GoogleLoop(results, scraped_at, search_term) ==
    IF results = <<>> THEN <<>>
    ELSE (IF GoogleKeeps(Head(results))
          THEN <<GooglePosting(Head(results), scraped_at, search_term)>>
          ELSE <<>>)
         \o GoogleLoop(Tail(results), scraped_at, search_term)

parse_google_jobs(blocks, scraped_at, search_term) ==
    GoogleLoop(SelectClass(blocks, "g"), scraped_at, search_term)

----------------------------------------------------------------------------
(* parse_linkedin_jobs.                                                    *)

LinkedinUrl(link_el) == BeforeQuery(AttrGet(link_el.href))

LinkedinPosting(card, scraped_at, search_term) ==
    JobPosting(LINKEDIN, TextOf(card.title), TextOf(card.subtitle),
               TextOf(card.location), LinkedinUrl(card.fullLink[1]),
               TextOf(card.snippet), TextOf(card.time), scraped_at, search_term)

\* variant: a card without a title element is dropped as a whole
RECURSIVE LinkedinLoop_DropsUntitled(_, _, _)
LinkedinLoop_DropsUntitled(cards, scraped_at, search_term) ==
    IF cards = <<>> THEN <<>>
    ELSE (IF Head(cards).fullLink = None \/ Head(cards).title = None THEN <<>>
          ELSE <<LinkedinPosting(Head(cards), scraped_at, search_term)>>)
         \o LinkedinLoop_DropsUntitled(Tail(cards), scraped_at, search_term)

RECURSIVE LinkedinLoop(_, _, _)
LinkedinLoop(cards, scraped_at, search_term) ==
    IF cards = <<>> THEN <<>>
    ELSE (IF Head(cards).fullLink = None THEN <<>>
          ELSE <<LinkedinPosting(Head(cards), scraped_at, search_term)>>)
         \o LinkedinLoop(Tail(cards), scraped_at, search_term)

parse_linkedin_jobs(blocks, scraped_at, search_term) ==
    LinkedinLoop(SelectClass(blocks, "base-card"), scraped_at, search_term)

----------------------------------------------------------------------------
(* deduplicate_jobs.                                                       *)

Key(job) == <<job.source, job.url>>

\* variant: seen.add(key) is missing
RECURSIVE DedupLoop_NoAdd(_, _)
DedupLoop_NoAdd(jobs, seen) ==
    IF jobs = <<>> THEN <<>>
    ELSE IF Key(Head(jobs)) \in seen THEN DedupLoop_NoAdd(Tail(jobs), seen)
    ELSE <<Head(jobs)>> \o DedupLoop_NoAdd(Tail(jobs), seen)

\* variant: the last record of a key is the one kept
RECURSIVE DedupLoop_KeepLast(_, _)
DedupLoop_KeepLast(jobs, seen) ==
    IF jobs = <<>> THEN <<>>
    ELSE IF \E i \in 2..Len(jobs) : Key(jobs[i]) = Key(Head(jobs))
         THEN DedupLoop_KeepLast(Tail(jobs), seen)
    ELSE <<Head(jobs)>> \o DedupLoop_KeepLast(Tail(jobs), seen)

\* variant: skipping a duplicate also discards its key from seen
RECURSIVE DedupLoop_Forgets(_, _)
DedupLoop_Forgets(jobs, seen) ==
    IF jobs = <<>> THEN <<>>
    ELSE IF Key(Head(jobs)) \in seen
         THEN DedupLoop_Forgets(Tail(jobs), seen \ {Key(Head(jobs))})
    ELSE <<Head(jobs)>> \o DedupLoop_Forgets(Tail(jobs), seen \cup {Key(Head(jobs))})

RECURSIVE DedupLoop(_, _)
DedupLoop(jobs, seen) ==
    IF jobs = <<>> THEN <<>>
    ELSE IF Key(Head(jobs)) \in seen THEN DedupLoop(Tail(jobs), seen)
    ELSE <<Head(jobs)>> \o DedupLoop(Tail(jobs), seen \cup {Key(Head(jobs))})

deduplicate_jobs(jobs) == DedupLoop(jobs, {})

----------------------------------------------------------------------------
(* The pages the three sites serve.  Page p of a listing shows job p and   *)
(* job p+1, so consecutive pages overlap in one job and every term sees    *)
(* the same jobs; the discovery and the network source link to the same    *)
(* postings.                                                               *)

JobTok == <<"j0", "j1", "j2", "j3", "j4", "j5", "j6", "j7">>

J(p) == JobTok[p + 1]

NoIndeedCard ==
    [cls |-> "job_seen_beacon", h2a |-> None, companyName |-> None,
     spanCompany |-> None, divCompany |-> None, companyLocation |-> None,
     divLocation |-> None, spanLocation |-> None, jobSnippet |-> None,
     divSummary |-> None, spanDate |-> None, spanDatePosted |-> None]

Anchor(aria, text, href) == Some([aria |-> aria, text |-> text, href |-> href])

IndeedListing(p) ==
    << [NoIndeedCard EXCEPT
          !.h2a = Anchor(Some(<<"Job", J(p)>>), <<" ", "apply", " ">>,
                         Some(<<"/", "viewjob", J(p)>>)),
          !.companyName = Some(<<" ", "Acme", " ">>),
          !.companyLocation = Some(<<"Sacramento">>),
          !.jobSnippet = Some(<<" ", "on", " ", " ", "call", " ">>),
          !.spanDate = Some(<<"today">>)],
       NoIndeedCard,
       [NoIndeedCard EXCEPT
          !.h2a = Anchor(None, <<" ", J(p + 1), " ">>,
                         Some(INDEED_ORIGIN \o <<"/", "viewjob", J(p + 1)>>)),
          !.spanCompany = Some(<<"Initech">>)] >>

IndeedPages(p) == {<<>>, <<NoIndeedCard>>, IndeedListing(p)}

NoGoogleResult == [cls |-> "g", a |-> None, h3 |-> None, VwiC3b |-> None, aCOpRe |-> None]

Link(href) == Some([href |-> href])

LinkedinJobUrl(p) == <<"https://", "www.", LINKEDIN_JOBS, "/", "view", J(p)>>

GoogleListing(p) ==
    << [NoGoogleResult EXCEPT
          !.a = Link(Some(LinkedinJobUrl(p))), !.h3 = Some(<<"Job", J(p)>>),
          !.VwiC3b = Some(<<"snippet">>)],
       [NoGoogleResult EXCEPT
          !.a = Link(Some(<<"https://", "example.org", "/", J(p)>>)),
          !.h3 = Some(<<"Elsewhere">>)],
       [NoGoogleResult EXCEPT
          !.a = Link(Some(LinkedinJobUrl(p + 1))), !.h3 = Some(<<J(p + 1)>>),
          !.aCOpRe = Some(<<"old", "snippet">>)] >>

\* a page past the last result still has a block, one that links elsewhere
GooglePages(p) == {<<GoogleListing(0)[2]>>, GoogleListing(p)}

NoLinkedinCard ==
    [cls |-> "base-card", fullLink |-> None, title |-> None, subtitle |-> None,
     location |-> None, snippet |-> None, time |-> None]

LinkedinListing(p) ==
    << [NoLinkedinCard EXCEPT
          !.fullLink = Link(Some(LinkedinJobUrl(p) \o <<"?", "trk=a">>)),
          !.title = Some(<<"Job", J(p)>>), !.subtitle = Some(<<"Acme">>),
          !.time = Some(<<"1d">>)],
       NoLinkedinCard,
       [NoLinkedinCard EXCEPT
          !.fullLink = Link(Some(LinkedinJobUrl(p + 1)))] >>

\* a page past the last result still has a block, one without the link
LinkedinPages(p) == {<<NoLinkedinCard>>, LinkedinListing(p)}

----------------------------------------------------------------------------
(* main() and the three paginators, one action per step of the thread.     *)

\* main(), lines 420-440.  With arguments the run has one term and any page
\* count (a count below 1 gives an empty range, like 0); without, it has the
\* default terms and page count.  Runs of several terms are explored with
\* the first MaxTerms default terms and at most MaxPagesMulti pages.
Init ==
    /\ \E n \in 1..MaxTerms, m \in 0..DEFAULT_MAX_PAGES :
          /\ n = 1 \/ m <= MaxPagesMulti
          /\ search_terms = SubSeq(DEFAULT_SEARCH_TERMS, 1, n)
          /\ max_pages = m
    /\ pc = "indeed_call"
    /\ t = 1
    /\ page = 0
    /\ all_postings = <<>>
    /\ all_jobs = <<>>
    /\ unique_jobs = <<>>
    /\ output = None
    /\ sessions = 0
    /\ raising = FALSE
    /\ fetched = <<>>
    /\ invoked = <<>>
    /\ clock = 0
    /\ html = <<>>
    /\ page_postings = <<>>

term == search_terms[t]

\* the state a paginator starts its loop in
EnterPaginator(source, loop) ==
    /\ all_postings' = <<>>
    /\ page' = 0
    /\ fetched' = <<>>
    /\ invoked' = Append(invoked, <<t, source>>)
    /\ pc' = loop

\* variant: the page's records replace the accumulator instead of extending it
TakePage_DropsPage(content, postings, break_to) ==
    /\ html' = content
    /\ page_postings' = postings
    /\ clock' = clock + 1
    /\ fetched' = Append(fetched, [page |-> page, yield |-> Some(postings)])
    /\ IF postings = <<>>
       THEN /\ pc' = break_to
            /\ UNCHANGED <<all_postings, page>>
       ELSE /\ all_postings' = postings
            /\ page' = page + 1
            /\ UNCHANGED pc

\* variant: an empty page does not end the loop
TakePage_NoBreak(content, postings, break_to) ==
    /\ html' = content
    /\ page_postings' = postings
    /\ clock' = clock + 1
    /\ fetched' = Append(fetched, [page |-> page, yield |-> Some(postings)])
    /\ all_postings' = all_postings \o postings
    /\ page' = page + 1
    /\ UNCHANGED pc

\* one loop body that got its page: extract, then break or extend
TakePage(content, postings, break_to) ==
    /\ html' = content
    /\ page_postings' = postings
    /\ clock' = clock + 1
    /\ fetched' = Append(fetched, [page |-> page, yield |-> Some(postings)])
    /\ IF postings = <<>>
       THEN /\ pc' = break_to
            /\ UNCHANGED <<all_postings, page>>
       ELSE /\ all_postings' = all_postings \o postings
            /\ page' = page + 1
            /\ UNCHANGED pc

\* search_indeed_for_term: webdriver.Chrome(options) succeeds
IndeedOpen ==
    /\ pc = "indeed_call"
    /\ EnterPaginator(INDEED, "indeed_loop")
    /\ sessions' = sessions + 1
    /\ UNCHANGED <<search_terms, max_pages, t, all_jobs, unique_jobs, output,
                   raising, clock, html, page_postings>>

\* webdriver.Chrome(options) raises, before the try block: nothing is opened
\* and main() does not catch it
IndeedOpenRaises ==
    /\ pc = "indeed_call"
    /\ EnterPaginator(INDEED, "crashed")
    /\ UNCHANGED <<search_terms, max_pages, t, all_jobs, unique_jobs, output,
                   sessions, raising, clock, html, page_postings>>

IndeedPage ==
    /\ pc = "indeed_loop"
    /\ page < max_pages
    /\ \E content \in IndeedPages(page) :
          TakePage(content, parse_indeed_jobs(content, clock + 1, term),
                   "indeed_finally")
    /\ UNCHANGED <<search_terms, max_pages, t, all_jobs, unique_jobs, output,
                   sessions, raising, invoked>>

\* driver.get(url) or driver.page_source raises inside the try block
IndeedPageRaises ==
    /\ pc = "indeed_loop"
    /\ page < max_pages
    /\ raising' = TRUE
    /\ clock' = clock + 1
    /\ fetched' = Append(fetched, [page |-> page, yield |-> None])
    /\ pc' = "indeed_finally"
    /\ UNCHANGED <<search_terms, max_pages, t, page, all_postings, all_jobs,
                   unique_jobs, output, sessions, invoked, html, page_postings>>

IndeedLoopEnd ==
    /\ pc = "indeed_loop"
    /\ page >= max_pages
    /\ pc' = "indeed_finally"
    /\ UNCHANGED <<search_terms, max_pages, t, page, all_postings, all_jobs,
                   unique_jobs, output, sessions, raising, fetched, invoked,
                   clock, html, page_postings>>

\* variant: driver.quit() after the loop, without try/finally
IndeedFinally_QuitOnSuccessOnly ==
    /\ pc = "indeed_finally"
    /\ IF raising
       THEN /\ pc' = "crashed"
            /\ UNCHANGED <<all_jobs, sessions>>
       ELSE /\ pc' = "google_call"
            /\ sessions' = sessions - 1
            /\ all_jobs' = all_jobs \o all_postings
    /\ UNCHANGED <<search_terms, max_pages, t, page, all_postings, unique_jobs,
                   output, raising, fetched, invoked, clock, html, page_postings>>

\* finally: driver.quit(); then the exception goes on through main(), or the
\* function returns and main() extends all_jobs
IndeedFinally ==
    /\ pc = "indeed_finally"
    /\ sessions' = sessions - 1
    /\ IF raising
       THEN /\ pc' = "crashed"
            /\ UNCHANGED all_jobs
       ELSE /\ pc' = "google_call"
            /\ all_jobs' = all_jobs \o all_postings
    /\ UNCHANGED <<search_terms, max_pages, t, page, all_postings, unique_jobs,
                   output, raising, fetched, invoked, clock, html, page_postings>>

GoogleCall ==
    /\ pc = "google_call"
    /\ EnterPaginator(GOOGLE, "google_loop")
    /\ UNCHANGED <<search_terms, max_pages, t, all_jobs, unique_jobs, output,
                   sessions, raising, clock, html, page_postings>>

GooglePage ==
    /\ pc = "google_loop"
    /\ page < max_pages
    /\ \E content \in GooglePages(page) :
          TakePage(content, parse_google_jobs(content, clock + 1, term),
                   "google_return")
    /\ UNCHANGED <<search_terms, max_pages, t, all_jobs, unique_jobs, output,
                   sessions, raising, invoked>>

\* variant: no except clause around fetch_page
GoogleFetchRaises_Uncaught ==
    /\ pc = "google_loop"
    /\ page < max_pages
    /\ clock' = clock + 1
    /\ fetched' = Append(fetched, [page |-> page, yield |-> None])
    /\ pc' = "crashed"
    /\ UNCHANGED <<search_terms, max_pages, t, page, all_postings, all_jobs,
                   unique_jobs, output, sessions, raising, invoked, html,
                   page_postings>>

\* fetch_page raises requests.HTTPError / RequestException: print, break
GoogleFetchRaises ==
    /\ pc = "google_loop"
    /\ page < max_pages
    /\ clock' = clock + 1
    /\ fetched' = Append(fetched, [page |-> page, yield |-> None])
    /\ pc' = "google_return"
    /\ UNCHANGED <<search_terms, max_pages, t, page, all_postings, all_jobs,
                   unique_jobs, output, sessions, raising, invoked, html,
                   page_postings>>

GoogleLoopEnd ==
    /\ pc = "google_loop"
    /\ page >= max_pages
    /\ pc' = "google_return"
    /\ UNCHANGED <<search_terms, max_pages, t, page, all_postings, all_jobs,
                   unique_jobs, output, sessions, raising, fetched, invoked,
                   clock, html, page_postings>>

\* variant: the source's records are put in front of all_jobs
GoogleReturn_Prepends ==
    /\ pc = "google_return"
    /\ all_jobs' = all_postings \o all_jobs
    /\ pc' = "linkedin_call"
    /\ UNCHANGED <<search_terms, max_pages, t, page, all_postings, unique_jobs,
                   output, sessions, raising, fetched, invoked, clock, html,
                   page_postings>>

GoogleReturn ==
    /\ pc = "google_return"
    /\ all_jobs' = all_jobs \o all_postings
    /\ pc' = "linkedin_call"
    /\ UNCHANGED <<search_terms, max_pages, t, page, all_postings, unique_jobs,
                   output, sessions, raising, fetched, invoked, clock, html,
                   page_postings>>

LinkedinCall ==
    /\ pc = "linkedin_call"
    /\ EnterPaginator(LINKEDIN, "linkedin_loop")
    /\ UNCHANGED <<search_terms, max_pages, t, all_jobs, unique_jobs, output,
                   sessions, raising, clock, html, page_postings>>

LinkedinPage ==
    /\ pc = "linkedin_loop"
    /\ page < max_pages
    /\ \E content \in LinkedinPages(page) :
          TakePage(content, parse_linkedin_jobs(content, clock + 1, term),
                   "linkedin_return")
    /\ UNCHANGED <<search_terms, max_pages, t, all_jobs, unique_jobs, output,
                   sessions, raising, invoked>>

LinkedinFetchRaises ==
    /\ pc = "linkedin_loop"
    /\ page < max_pages
    /\ clock' = clock + 1
    /\ fetched' = Append(fetched, [page |-> page, yield |-> None])
    /\ pc' = "linkedin_return"
    /\ UNCHANGED <<search_terms, max_pages, t, page, all_postings, all_jobs,
                   unique_jobs, output, sessions, raising, invoked, html,
                   page_postings>>

LinkedinLoopEnd ==
    /\ pc = "linkedin_loop"
    /\ page >= max_pages
    /\ pc' = "linkedin_return"
    /\ UNCHANGED <<search_terms, max_pages, t, page, all_postings, all_jobs,
                   unique_jobs, output, sessions, raising, fetched, invoked,
                   clock, html, page_postings>>

\* back in main(): extend all_jobs, then the next term or the end of the loop
LinkedinReturn ==
    /\ pc = "linkedin_return"
    /\ all_jobs' = all_jobs \o all_postings
    /\ t' = t + 1
    /\ pc' = IF t + 1 <= Len(search_terms) THEN "indeed_call" ELSE "dedupe"
    /\ UNCHANGED <<search_terms, max_pages, page, all_postings, unique_jobs,
                   output, sessions, raising, fetched, invoked, clock, html,
                   page_postings>>

Deduplicate ==
    /\ pc = "dedupe"
    /\ unique_jobs' = deduplicate_jobs(all_jobs)
    /\ pc' = "save"
    /\ UNCHANGED <<search_terms, max_pages, t, page, all_postings, all_jobs,
                   output, sessions, raising, fetched, invoked, clock, html,
                   page_postings>>

save_jobs_to_file ==
    /\ pc = "save"
    /\ output' = Some(unique_jobs)
    /\ pc' = "done"
    /\ UNCHANGED <<search_terms, max_pages, t, page, all_postings, all_jobs,
                   unique_jobs, sessions, raising, fetched, invoked, clock,
                   html, page_postings>>

Next ==
    \/ IndeedOpen
    \/ IndeedOpenRaises
    \/ IndeedPage
    \/ IndeedPageRaises
    \/ IndeedLoopEnd
    \/ IndeedFinally
    \/ GoogleCall
    \/ GooglePage
    \/ GoogleFetchRaises
    \/ GoogleLoopEnd
    \/ GoogleReturn
    \/ LinkedinCall
    \/ LinkedinPage
    \/ LinkedinFetchRaises
    \/ LinkedinLoopEnd
    \/ LinkedinReturn
    \/ Deduplicate
    \/ save_jobs_to_file

Spec == Init /\ [][Next]_vars

----------------------------------------------------------------------------
(* deduplicate_jobs on arbitrary record lists: main() from line 452 on,    *)
(* started with any list of at most MaxJobs records.                       *)

BoundedSeq(S, n) == UNION {[1..k -> S] : k \in 0..n}

DedupeRecords ==
    {JobPosting(s, ti, <<>>, <<>>, LinkedinJobUrl(p), <<>>, <<>>, 0, 1) :
        s \in {GOOGLE, LINKEDIN}, ti \in {<<"first">>, <<"second">>}, p \in {0, 1}}

Idle ==
    /\ search_terms = <<1>>
    /\ max_pages = 0
    /\ t = 1
    /\ page = 0
    /\ all_postings = <<>>
    /\ unique_jobs = <<>>
    /\ output = None
    /\ sessions = 0
    /\ raising = FALSE
    /\ fetched = <<>>
    /\ invoked = <<>>
    /\ clock = 0
    /\ page_postings = <<>>

InitDedupe ==
    /\ Idle
    /\ pc = "dedupe"
    /\ all_jobs \in BoundedSeq(DedupeRecords, MaxJobs)
    /\ html = <<>>

NextDedupe ==
    \/ Deduplicate
    \/ save_jobs_to_file

SpecDedupe == InitDedupe /\ [][NextDedupe]_vars

----------------------------------------------------------------------------
(* The extractors on arbitrary pages of at most MaxCards blocks.           *)

IndeedBlocks ==
    { IndeedListing(0)[1],
      IndeedListing(0)[3],
      NoIndeedCard,
      [NoIndeedCard EXCEPT
          !.cls = "jobsearch-SerpJobCard",
          !.h2a = Anchor(None, <<"Analyst">>, Some(<<"rc", "/", "clk", "?", "jk=1">>))],
      [NoIndeedCard EXCEPT
          !.h2a = Anchor(None, <<" ">>, None), !.divCompany = Some(<<"Hooli">>)],
      [NoIndeedCard EXCEPT
          !.h2a = Anchor(Some(<<>>), <<"Tester">>, Some(<<>>)),
          !.divLocation = Some(<<"Remote">>), !.divSummary = Some(<<"x", " ", " ", "y">>),
          !.spanDatePosted = Some(<<"3d">>)],
      [NoIndeedCard EXCEPT
          !.cls = "other", !.h2a = Anchor(None, <<"Ad">>, Some(<<"/", "ad">>))] }

GoogleBlocks ==
    { GoogleListing(0)[1],
      GoogleListing(0)[2],
      GoogleListing(0)[3],
      NoGoogleResult,
      [NoGoogleResult EXCEPT !.a = Link(None), !.h3 = Some(<<"No href">>)],
      [NoGoogleResult EXCEPT !.a = Link(Some(LinkedinJobUrl(2)))],
      [NoGoogleResult EXCEPT !.a = Link(Some(LinkedinJobUrl(3))), !.h3 = Some(<<" ">>)],
      [NoGoogleResult EXCEPT
          !.cls = "other", !.a = Link(Some(LinkedinJobUrl(4))), !.h3 = Some(<<"Ad">>)] }

LinkedinBlocks ==
    { LinkedinListing(0)[1],
      NoLinkedinCard,
      LinkedinListing(0)[3],
      [NoLinkedinCard EXCEPT
          !.fullLink = Link(Some(<<"/", "jobs", "/", "view", "j2", "?", "pos=1">>)),
          !.title = Some(<<" ", "Relative", " ">>), !.location = Some(<<"Davis">>),
          !.snippet = Some(<<"text">>)],
      [NoLinkedinCard EXCEPT !.fullLink = Link(None), !.title = Some(<<"No href">>)],
      [NoLinkedinCard EXCEPT !.fullLink = Link(Some(<<"?", "only=query">>))],
      [NoLinkedinCard EXCEPT
          !.cls = "other", !.fullLink = Link(Some(LinkedinJobUrl(4)))] }

InitExtract ==
    /\ Idle
    /\ all_jobs = <<>>
    /\ \/ pc = "extract_indeed" /\ html \in BoundedSeq(IndeedBlocks, MaxCards)
       \/ pc = "extract_google" /\ html \in BoundedSeq(GoogleBlocks, MaxCards)
       \/ pc = "extract_linkedin" /\ html \in BoundedSeq(LinkedinBlocks, MaxCards)

Extracted(postings, done) ==
    /\ page_postings' = postings
    /\ clock' = clock + 1
    /\ pc' = done
    /\ UNCHANGED <<search_terms, max_pages, t, page, all_postings, all_jobs,
                   unique_jobs, output, sessions, raising, fetched, invoked, html>>

ExtractIndeed ==
    /\ pc = "extract_indeed"
    /\ Extracted(parse_indeed_jobs(html, clock + 1, term), "extracted_indeed")

ExtractGoogle ==
    /\ pc = "extract_google"
    /\ Extracted(parse_google_jobs(html, clock + 1, term), "extracted_google")

ExtractLinkedin ==
    /\ pc = "extract_linkedin"
    /\ Extracted(parse_linkedin_jobs(html, clock + 1, term), "extracted_linkedin")

NextExtract ==
    \/ ExtractIndeed
    \/ ExtractGoogle
    \/ ExtractLinkedin

SpecExtract == InitExtract /\ [][NextExtract]_vars

----------------------------------------------------------------------------
(* Vocabulary of the properties.                                           *)

Last(seq) == seq[Len(seq)]

\* the k-th smallest element of a finite set of integers
NthOf(S, k) == CHOOSE i \in S : Cardinality({j \in S : j <= i}) = k

\* the subsequence of seq at the positions in S, in position order
SubseqAt(seq, S) == [k \in 1..Cardinality(S) |-> seq[NthOf(S, k)]]

NoYield == <<>>

EmptyYield == << <<>> >>

\* the records of the pages a request log obtained, in request order
RECURSIVE YieldsOf(_)
YieldsOf(log) ==
    IF log = <<>> THEN <<>>
    ELSE YieldsOf(SubSeq(log, 1, Len(log) - 1))
         \o (IF Last(log).yield = NoYield THEN <<>> ELSE Last(log).yield[1])

NonEmptyPages(log) ==
    Cardinality({i \in DOMAIN log : log[i].yield \notin {NoYield, EmptyYield}})

\* the paginator has left its loop and is about to hand back all_postings
PaginatorEnded == pc \in {"indeed_finally", "google_return", "linkedin_return"}

InPaginator ==
    pc \in {"indeed_loop", "indeed_finally", "google_loop", "google_return",
            "linkedin_loop", "linkedin_return"}

\* the k-th paginator call of a run: terms in order, per term the three sources
CallAt(k) == <<((k - 1) \div 3) + 1, Sources[((k - 1) % 3) + 1]>>

TermIdx(r) == CHOOSE i \in DOMAIN search_terms : search_terms[i] = r.search_term

SourceIdx(r) == CHOOSE i \in DOMAIN Sources : Sources[i] = r.source

\* the position of the record's job in its site's listing order
CardIdx(r) == CHOOSE i \in DOMAIN JobTok : JobTok[i] = Last(r.url)

IsAbsolute(url) == url # <<>> /\ url[1] \in {"https://", "http://"}

----------------------------------------------------------------------------
\* C1: the record list written to the output file holds no two records with
\* the same (source, url) pair, and every (source, url) pair accumulated by
\* the run is still in it, so equal urls under different sources both stay.
C1_OutputKeysUnique ==
    output # None =>
        /\ \A i, j \in DOMAIN output[1] :
              i # j => Key(output[1][i]) # Key(output[1][j])
        /\ \A i \in DOMAIN all_jobs :
              \E j \in DOMAIN output[1] : Key(output[1][j]) = Key(all_jobs[i])

C1_Witness ==
    /\ output # None
    /\ Len(output[1]) < Len(all_jobs)
    /\ \E i, j \in DOMAIN output[1] :
          /\ output[1][i].url = output[1][j].url
          /\ output[1][i].source # output[1][j].source

FirstOccurrences(jobs) ==
    {i \in DOMAIN jobs : \A j \in 1..(i - 1) : Key(jobs[j]) # Key(jobs[i])}

\* C2: deduplicate_jobs returns the records at the first position of each
\* (source, url) key, in input order.
C2_FirstOccurrenceSubsequence ==
    pc \in {"save", "done"} =>
        unique_jobs = SubseqAt(all_jobs, FirstOccurrences(all_jobs))

C2_Witness ==
    /\ pc = "save"
    /\ Len(all_jobs) = 3
    /\ Key(all_jobs[1]) = Key(all_jobs[3])
    /\ all_jobs[1] # all_jobs[3]
    /\ Key(all_jobs[1]) # Key(all_jobs[2])
    /\ unique_jobs = <<all_jobs[1], all_jobs[2]>>

\* C3: in every paginator, once a requested page yields zero records it is
\* the last page requested, the pages requested are 0..k in order, and the
\* paginator hands back the records of pages 0..k-1 in page order.
C3_StopOnEmptyPage ==
    \A k \in DOMAIN fetched :
        fetched[k].yield = EmptyYield =>
            /\ k = Len(fetched)
            /\ \A i \in 1..k : fetched[i].page = i - 1
            /\ k <= max_pages
            /\ PaginatorEnded =>
                  all_postings = YieldsOf(SubSeq(fetched, 1, k - 1))

C3_Witness ==
    /\ pc = "linkedin_return"
    /\ max_pages = DEFAULT_MAX_PAGES
    /\ Len(fetched) = 3
    /\ fetched[3].yield = EmptyYield
    /\ Len(all_postings) = 4

\* C4 (as claimed): a paginator that stopped at an empty page has issued as
\* many page requests as there are non-empty pages before that page.
C4_FetchesEqualNonEmptyPages ==
    (PaginatorEnded /\ fetched # <<>> /\ Last(fetched).yield = EmptyYield) =>
        Len(fetched) = NonEmptyPages(fetched)

\* C4 (amended): a paginator that stopped at an empty page has issued one
\* request per non-empty page before it plus the request for the empty page
\* itself; with max_pages = 5 and the first empty page at index 2 that is 3.
C4_FetchesIncludeEmptyPage ==
    (PaginatorEnded /\ fetched # <<>> /\ Last(fetched).yield = EmptyYield) =>
        /\ Len(fetched) = NonEmptyPages(fetched) + 1
        /\ Len(fetched) <= max_pages

C4_Witness ==
    /\ pc = "google_return"
    /\ max_pages = DEFAULT_MAX_PAGES
    /\ Len(fetched) = 3
    /\ fetched[1].yield \notin {NoYield, EmptyYield}
    /\ fetched[2].yield \notin {NoYield, EmptyYield}
    /\ fetched[3].yield = EmptyYield

\* C5 (as claimed): no failure of a page request, in any of the three
\* paginators, ends the run before deduplication and the output write.
C5_NoFetchFailureAbortsRun ==
    pc = "crashed" => ~(fetched # <<>> /\ Last(fetched).yield = NoYield)

\* C5 (amended): a failed page request of the discovery or the network
\* paginator is caught there: the paginator hands back the records of the
\* pages it had, the run goes on, and a run that ends normally has called
\* every (term, source) in order and written the deduplicated records.  Only
\* the board paginator lets a failure through, and then nothing is written.
C5_HttpFailuresAreContained ==
    /\ pc = "crashed" => Last(invoked)[2] = INDEED /\ output = None
    /\ (/\ pc \in {"google_return", "linkedin_return"}
        /\ fetched # <<>>
        /\ Last(fetched).yield = NoYield)
          => all_postings = YieldsOf(SubSeq(fetched, 1, Len(fetched) - 1))
    /\ pc \notin {"done", "crashed"} => ENABLED Next
    /\ pc = "done" =>
          /\ Len(invoked) = 3 * Len(search_terms)
          /\ \A k \in DOMAIN invoked : invoked[k] = CallAt(k)
          /\ output = Some(deduplicate_jobs(all_jobs))

C5_Witness ==
    /\ pc = "done"
    /\ Len(search_terms) = 1
    /\ Len(fetched) = 3
    /\ Last(fetched).yield = NoYield
    /\ Last(invoked)[2] = LINKEDIN
    /\ Len(all_postings) = 4
    /\ output # None

\* C6: at most one browser session is open at any time, and one is open
\* only while the board paginator is inside its try block: once that
\* paginator has returned or raised, none is open.
C6_SessionReleased ==
    /\ sessions \in {0, 1}
    /\ sessions = 1 => pc \in {"indeed_loop", "indeed_finally"}

C6_Witness ==
    /\ pc = "crashed"
    /\ raising
    /\ Len(fetched) = 2
    /\ Last(fetched).yield = NoYield
    /\ sessions = 0

Traversal == all_jobs \o (IF InPaginator THEN all_postings ELSE <<>>)

Precedes(a, b) ==
    IF a.search_term # b.search_term THEN TermIdx(a) < TermIdx(b)
    ELSE IF a.source # b.source THEN SourceIdx(a) < SourceIdx(b)
    ELSE IF a.scraped_at # b.scraped_at THEN a.scraped_at < b.scraped_at
    ELSE CardIdx(a) < CardIdx(b)

\* C7: the records accumulated so far are in traversal order term, source,
\* page, card (each record precedes its successor in that order, which is
\* transitive); request time grows along them, so no page of a later
\* (term, source) was requested before the pages of an earlier one; and the
\* paginators are called in the order term, then board, discovery, network.
C7_TraversalOrder ==
    /\ LET seq == Traversal
       IN  \A i \in 1..(Len(seq) - 1) :
              /\ Precedes(seq[i], seq[i + 1])
              /\ seq[i].scraped_at <= seq[i + 1].scraped_at
    /\ \A k \in DOMAIN invoked : invoked[k] = CallAt(k)
    /\ InPaginator =>
          \A i \in DOMAIN all_postings :
              /\ all_postings[i].source = Last(invoked)[2]
              /\ TermIdx(all_postings[i]) = Last(invoked)[1]
    /\ \A i \in DOMAIN fetched : fetched[i].page = i - 1

C7_Witness ==
    /\ pc = "done"
    /\ Len(search_terms) = 2
    /\ Len(all_jobs) = 12

\* C8 (as claimed): every board and network record has a title and a
\* non-empty link, every discovery record a title and a link holding the
\* job-postings path.
C8_RecordsHaveTitleAndLink ==
    /\ pc \in {"extracted_indeed", "extracted_linkedin"} =>
          \A i \in DOMAIN page_postings :
              page_postings[i].title # <<>> /\ page_postings[i].url # <<>>
    /\ pc = "extracted_google" =>
          \A i \in DOMAIN page_postings :
              /\ page_postings[i].title # <<>>
              /\ ContainsJobsPath(page_postings[i].url)

IndeedKept == {i \in DOMAIN IndeedJobCards(html) : IndeedJobCards(html)[i].h2a # None}

GoogleResults == SelectClass(html, "g")

GoogleKept ==
    {i \in DOMAIN GoogleResults :
        /\ GoogleResults[i].a # None
        /\ GoogleResults[i].h3 # None
        /\ GoogleResults[i].a[1].href # None
        /\ ContainsJobsPath(GoogleResults[i].a[1].href[1])}

LinkedinCards == SelectClass(html, "base-card")

LinkedinKept == {i \in DOMAIN LinkedinCards : LinkedinCards[i].fullLink # None}

\* C8 (amended): an extractor yields one record per candidate block that has
\* its identity element, in block order, and drops the other blocks: the
\* title-and-link anchor for the board source, the full-link anchor for the
\* network source, a link and a heading with the job-postings path in the
\* link for the discovery source.  Title and link of a kept board or network
\* record may still be empty.  A missing company, location, summary or
\* posted element (and a missing network title) gives the empty string.
C8_RecordPerIdentityElement ==
    /\ pc = "extracted_indeed" =>
          /\ Len(page_postings) = Cardinality(IndeedKept)
          /\ \A k \in DOMAIN page_postings :
                LET c == IndeedJobCards(html)[NthOf(IndeedKept, k)]
                    r == page_postings[k]
                IN  /\ r.source = INDEED
                    /\ (c.companyName = None /\ c.spanCompany = None
                          /\ c.divCompany = None) => r.company = <<>>
                    /\ (c.companyLocation = None /\ c.divLocation = None
                          /\ c.spanLocation = None) => r.location = <<>>
                    /\ (c.jobSnippet = None /\ c.divSummary = None)
                          => r.summary = <<>>
                    /\ (c.spanDate = None /\ c.spanDatePosted = None)
                          => r.posted_raw = <<>>
                    /\ c.companyName # None => r.company = Strip(c.companyName[1])
    /\ pc = "extracted_google" =>
          /\ Len(page_postings) = Cardinality(GoogleKept)
          /\ \A k \in DOMAIN page_postings :
                LET c == GoogleResults[NthOf(GoogleKept, k)]
                    r == page_postings[k]
                IN  /\ r.source = GOOGLE
                    /\ r.url = c.a[1].href[1]
                    /\ ContainsJobsPath(r.url)
                    /\ (c.VwiC3b = None /\ c.aCOpRe = None) => r.summary = <<>>
    /\ pc = "extracted_linkedin" =>
          /\ Len(page_postings) = Cardinality(LinkedinKept)
          /\ \A k \in DOMAIN page_postings :
                LET c == LinkedinCards[NthOf(LinkedinKept, k)]
                    r == page_postings[k]
                IN  /\ r.source = LINKEDIN
                    /\ c.title = None => r.title = <<>>
                    /\ c.subtitle = None => r.company = <<>>
                    /\ c.location = None => r.location = <<>>
                    /\ c.snippet = None => r.summary = <<>>
                    /\ c.time = None => r.posted_raw = <<>>
                    /\ c.title # None => r.title = Strip(c.title[1])

C8_Witness ==
    /\ pc = "extracted_indeed"
    /\ Len(html) = 2
    /\ html[1].h2a = None
    /\ Len(page_postings) = 1
    /\ page_postings[1].title = <<>>
    /\ page_postings[1].url = <<>>
    /\ page_postings[1].company # <<>>
    /\ page_postings[1].summary = <<>>

\* C9: the url of every record of the board and the network extractor is an
\* absolute link.
C9_UrlsAreAbsolute ==
    pc \in {"extracted_indeed", "extracted_linkedin"} =>
        \A i \in DOMAIN page_postings : IsAbsolute(page_postings[i].url)

\* C10: deduplicating the deduplicated list changes nothing.
C10_DedupeIdempotent ==
    pc \in {"save", "done"} => deduplicate_jobs(unique_jobs) = unique_jobs

C10_Witness ==
    /\ pc = "save"
    /\ Len(all_jobs) = 3
    /\ Len(unique_jobs) = 2
    /\ Key(all_jobs[1]) = Key(all_jobs[2])

====
